---- MODULE Spec2Model ----
(***************************************************************************)
(* Model of flog.BufferedLog (src/flog/BufferedLog.go, current revision,   *)
(* lines 1-182) together with its construction in flog.New                 *)
(* (src/flog/flog.go).                                                     *)
(*                                                                         *)
(* Processes: the caller goroutines (Threads), each issuing a bounded      *)
(* number of public calls (Print, SetEnabled, Close), and the background   *)
(* goroutine running asyncFlush (Loop).  The goroutines spawned by print   *)
(* to signal flushChan are counted in `signallers`.                        *)
(*                                                                         *)
(* The write buffer and the backing file are sequences of tokens: a        *)
(* rendered record is its payload token followed by a newline token.       *)
(*                                                                         *)
(* shutdown.Sync (github.com/xaevman/shutdown) is used as a two-phase,     *)
(* single-use signal: Start raises Signal without blocking, Complete       *)
(* raises completion without blocking, WaitForTimeout returns false once   *)
(* completion is raised and true when its timeout elapses first.           *)
(*                                                                         *)
(* A panic of flushLogs in Close unwinds into the caller, whose goroutine  *)
(* stops ("panicked"); in asyncFlush it runs the deferred Complete and     *)
(* ends the flush goroutine ("L_crashed").                                 *)
(*                                                                         *)
(* RotSpec adds flog.Rotate (src/flog/flog.go) and DirectLog               *)
(* (src/flog/DirectLog.go): one caller prints, rotates and closes a        *)
(* logger of either kind; the live file and the files under old/ are       *)
(* modelled by their contents, the archive names by the digits of the      *)
(* date.  LBSpec models LogBuffer in its list revision (src/log.go) and    *)
(* its ring revision (src/unnamed/part_000).  Each specification holds     *)
(* the variables of the others fixed.                                      *)
(***************************************************************************)
EXTENDS Naturals, Integers, Sequences, FiniteSets, TLC

\* ------------------------------------------------------------------ bounds

\* Number of public calls (other than Rotate) the caller goroutines make in
\* total.
MaxOps == 3

\* print signals the flush goroutine once count exceeds this (the source
\* uses 100; scaled down so that the signal path is exercised).
FlushThreshold == 2

\* ------------------------------------------------------------ processes

Threads == {"t1", "t2"}

Loop == "loop"

Procs == Threads \cup {Loop}

NoOne == "none"

\* ------------------------------------------------------------- records

Msg(kind, who, n) == [kind |-> kind, who |-> who, n |-> n]

NL == Msg("nl", NoOne, 0)

InitMsg == Msg("init", NoOne, 0)

CloseMsg == Msg("close", NoOne, 0)

ShutdownMsg == Msg("shutdown", NoOne, 0)

TimeoutMsg == Msg("timeout", NoOne, 0)

UserMsg(t, k) == Msg("user", t, k)

\* LogMsg.String followed by log.Logger.Output: the text of the record,
\* terminated by exactly one newline.
Render(m) == <<m, NL>>

\* flog.DefaultFlushIntervalSec.
DefaultFlushIntervalSec == 5

VARIABLES
    buffer,      \* bytes.Buffer: tokens pending
    file,        \* contents of the backing file
    fileOpen,    \* the os.File handle has not been closed
    count,       \* records printed since the last flush
    enabled,
    hasClosed,
    lock,        \* holder of the write lock, or NoOne
    sigStarted,  \* shutdown.Signal has been raised (shutdown.Start)
    sigComplete, \* shutdown completion has been raised (shutdown.Complete)
    signallers,  \* goroutines blocked sending on flushChan
    pc,          \* position of every process
    ncalls,      \* public calls made so far by all callers
    nsent,       \* Print calls of each caller that passed the enabled check
    accepted,    \* history: records in the order print appended them
    closeSnap,   \* history: Len(accepted) when the caller's Close was invoked
    closeRet     \* history: some call of Close has returned

\* The logger's place in the file system and what flog.Rotate works on.
VARIABLES
    kind,        \* "buffered" (*BufferedLog) or "direct" (*DirectLog)
    flushSec,    \* BufferedLog.flushSec of the live instance
    livePresent, \* a file exists at <baseDir>/<name>.log
    archive,     \* the files under <baseDir>/old: name prefix -> contents
    today,       \* position of the clock in Days
    rotations,   \* calls of Rotate that have returned
    inRotate     \* the caller inside Rotate, or NoOne

rotVars == <<kind, flushSec, livePresent, archive, today, rotations, inRotate>>

\* LogBuffer, in its two revisions: the container/list one of src/log.go
\* (with SetMaxSize) and the container/ring one.
VARIABLES
    impl,        \* "list" or "ring"
    logs,        \* list: the records, front first; ring: the slots
    ringPos,     \* ring: the slot this.logs points at (0: no ring)
    maxSize,     \* the capacity given to NewLogBuffer or SetMaxSize
    changed,
    lbEnabled,   \* LogBuffer.enabled
    lbpc,        \* position of every caller of the LogBuffer
    lbcalls,     \* LogBuffer calls made so far
    inserted,    \* history: the records Print stored, in order
    dropped,     \* history: Print calls that returned at the enabled test
    readMark,    \* history: Len(inserted) when ReadAll last cleared changed
    sizeMark,    \* history: Len(inserted) when SetMaxSize last ran
    readRet,     \* the slice the last ReadAll returned
    hasRet       \* the value the last HasChanged returned

lbVars == <<impl, logs, ringPos, maxSize, changed, lbEnabled, lbpc, lbcalls,
            inserted, dropped, readMark, sizeMark, readRet, hasRet>>

\* What the BufferedLog calls leave alone.
other == <<rotVars, lbVars>>

logVars == <<buffer, file, fileOpen, count, enabled, hasClosed, lock,
             sigStarted, sigComplete, signallers, pc, ncalls, nsent,
             accepted, closeSnap, closeRet>>

vars == <<logVars, other>>

shared == <<buffer, file, fileOpen, count, enabled, hasClosed, lock, sigStarted,
            sigComplete, signallers>>

hist == <<accepted, closeSnap, closeRet>>

\* No LogBuffer is in use.
NoLogBuffer ==
    /\ impl = "list"
    /\ logs = <<>>
    /\ ringPos = 0
    /\ maxSize = 0
    /\ changed = FALSE
    /\ lbEnabled = TRUE
    /\ lbpc = [t \in Threads |-> "idle"]
    /\ lbcalls = 0
    /\ inserted = <<>>
    /\ dropped = 0
    /\ readMark = 0
    /\ sizeMark = 0
    /\ readRet = <<>>
    /\ hasRet = FALSE

\* State after flog.New(name, path, BufferedFile): the file is open, the
\* flush goroutine is running, and newLog.Print(initMsg) has buffered the
\* init marker.
Init ==
    /\ buffer = Render(InitMsg)
    /\ file = <<>>
    /\ fileOpen = TRUE
    /\ count = 1
    /\ enabled = TRUE
    /\ hasClosed = FALSE
    /\ lock = NoOne
    /\ sigStarted = FALSE
    /\ sigComplete = FALSE
    /\ signallers = 0
    /\ pc = [p \in Procs |-> IF p = Loop THEN "L_select" ELSE "idle"]
    /\ ncalls = 0
    /\ nsent = [t \in Threads |-> 0]
    /\ accepted = <<InitMsg>>
    /\ closeSnap = [t \in Threads |-> 0]
    /\ closeRet = FALSE
    /\ kind = "buffered"
    /\ flushSec = DefaultFlushIntervalSec
    /\ livePresent = TRUE
    /\ archive = <<>>
    /\ today = 1
    /\ rotations = 0
    /\ inRotate = NoOne
    /\ NoLogBuffer

Goto(p, to) == pc' = [pc EXCEPT ![p] = to]

\* ------------------------------------------------------ print (private)

\* The spawned goroutine of print: only when count exceeds the threshold.
spawnSignal(c) == IF c > FlushThreshold THEN signallers + 1 ELSE signallers

\* Mutant of print: the record replaces the buffer's contents instead of
\* being appended to them.
print_overwrite(p, m, from, to) ==
    /\ pc[p] = from
    /\ lock = NoOne
    /\ count' = count + 1
    /\ buffer' = Render(m)
    /\ accepted' = Append(accepted, m)
    /\ signallers' = spawnSignal(count + 1)
    /\ Goto(p, to)
    /\ UNCHANGED <<file, fileOpen, enabled, hasClosed, lock, sigStarted,
                   sigComplete, ncalls, nsent, closeSnap, closeRet, other>>

\* print: Lock, the body and the deferred Unlock.  Nothing outside the lock
\* reads or writes count, buffer or flushChan's senders, so the critical
\* section is one step, taken when the lock is free.
print(p, m, from, to) ==
    /\ pc[p] = from
    /\ lock = NoOne
    /\ count' = count + 1
    /\ buffer' = buffer \o Render(m)
    /\ accepted' = Append(accepted, m)
    /\ signallers' = spawnSignal(count + 1)
    /\ Goto(p, to)
    /\ UNCHANGED <<file, fileOpen, enabled, hasClosed, lock, sigStarted,
                   sigComplete, ncalls, nsent, closeSnap, closeRet, other>>

\* --------------------------------------------------- flushLogs (private)

\* this.lock.Lock() at the head of flushLogs.
flushLock(p, from, to) ==
    /\ pc[p] = from
    /\ lock = NoOne
    /\ lock' = p
    /\ Goto(p, to)
    /\ UNCHANGED <<buffer, file, fileOpen, count, enabled, hasClosed,
                   sigStarted, sigComplete, signallers, ncalls, nsent, hist, other>>

\* Mutant of flushCopy: the buffer is written but not reset.
flushCopy_noReset(p, from, to, fail) ==
    /\ pc[p] = from
    /\ lock = p
    /\ IF buffer = <<>>
         THEN /\ Goto(p, to)
              /\ UNCHANGED <<file, lock>>
         ELSE IF fileOpen
                THEN /\ file' = file \o buffer
                     /\ Goto(p, to)
                     /\ UNCHANGED lock
                ELSE /\ lock' = NoOne
                     /\ Goto(p, fail)
                     /\ UNCHANGED file
    /\ UNCHANGED <<buffer, fileOpen, count, enabled, hasClosed, sigStarted,
                   sigComplete, signallers, ncalls, nsent, hist, other>>

\* Mutant of flushCopy: nothing is copied while count does not exceed the
\* threshold.
flushCopy_threshold(p, from, to, fail) ==
    /\ pc[p] = from
    /\ lock = p
    /\ IF buffer = <<>> \/ count <= FlushThreshold
         THEN /\ Goto(p, to)
              /\ UNCHANGED <<buffer, file, lock>>
         ELSE IF fileOpen
                THEN /\ file' = file \o buffer
                     /\ buffer' = <<>>
                     /\ Goto(p, to)
                     /\ UNCHANGED lock
                ELSE /\ lock' = NoOne
                     /\ Goto(p, fail)
                     /\ UNCHANGED <<buffer, file>>
    /\ UNCHANGED <<fileOpen, count, enabled, hasClosed, sigStarted,
                   sigComplete, signallers, ncalls, nsent, hist, other>>

\* io.Copy(this.file, &this.buffer): bytes.Buffer.WriteTo writes the whole
\* buffer in one Write and resets it; an empty buffer is not written at all.
\* A Write on a closed handle fails and flushLogs panics (the deferred
\* Unlock runs, the buffer keeps its contents).
flushCopy(p, from, to, fail) ==
    /\ pc[p] = from
    /\ lock = p
    /\ IF buffer = <<>>
         THEN /\ Goto(p, to)
              /\ UNCHANGED <<buffer, file, lock>>
         ELSE IF fileOpen
                THEN /\ file' = file \o buffer
                     /\ buffer' = <<>>
                     /\ Goto(p, to)
                     /\ UNCHANGED lock
                ELSE /\ lock' = NoOne
                     /\ Goto(p, fail)
                     /\ UNCHANGED <<buffer, file>>
    /\ UNCHANGED <<fileOpen, count, enabled, hasClosed, sigStarted,
                   sigComplete, signallers, ncalls, nsent, hist, other>>

\* Mutant of flushSync: a failed Sync is swallowed and the flush returns as
\* if it had succeeded.
flushSync_swallow(p, from, to, fail) ==
    /\ pc[p] = from
    /\ lock = p
    /\ count' = 0
    /\ Goto(p, to)
    /\ lock' = NoOne
    /\ UNCHANGED <<buffer, file, fileOpen, enabled, hasClosed, sigStarted,
                   sigComplete, signallers, ncalls, nsent, hist, other>>

\* this.file.Sync(), this.count = 0 and the deferred Unlock; Sync on a
\* closed handle fails and flushLogs panics.
flushSync(p, from, to, fail) ==
    /\ pc[p] = from
    /\ lock = p
    /\ IF fileOpen
         THEN /\ count' = 0
              /\ Goto(p, to)
         ELSE /\ Goto(p, fail)
              /\ UNCHANGED count
    /\ lock' = NoOne
    /\ UNCHANGED <<buffer, file, fileOpen, enabled, hasClosed, sigStarted,
                   sigComplete, signallers, ncalls, nsent, hist, other>>

\* --------------------------------------------------------- public calls

\* A caller may start another public call.
CanCall(t) == pc[t] = "idle" /\ ncalls < MaxOps

\* Mutant of PrintCall: Print without the test of enabled.
PrintCall_noCheck(t) ==
    /\ CanCall(t)
    /\ lock = NoOne
    /\ ncalls' = ncalls + 1
    /\ nsent' = [nsent EXCEPT ![t] = @ + 1]
    /\ Goto(t, "P_print")
    /\ UNCHANGED <<shared, hist, other>>

\* BufferedLog.Print: reads enabled under RLock; returns when disabled,
\* otherwise goes on to print (which takes the write lock afresh).
PrintCall(t) ==
    /\ CanCall(t)
    /\ lock = NoOne
    /\ ncalls' = ncalls + 1
    /\ IF enabled
         THEN /\ nsent' = [nsent EXCEPT ![t] = @ + 1]
              /\ Goto(t, "P_print")
         ELSE /\ Goto(t, "P_drop")
              /\ UNCHANGED nsent
    /\ UNCHANGED <<shared, hist, other>>

\* Print, lines 106-109: the instance is disabled; RUnlock and return.
PrintDrop(t) ==
    /\ pc[t] = "P_drop"
    /\ Goto(t, "idle")
    /\ UNCHANGED <<shared, ncalls, nsent, hist, other>>

\* Print, line 112: this.print(msg).
PrintBody(t) == print(t, UserMsg(t, nsent[t]), "P_print", "idle")

\* BufferedLog.SetEnabled: the assignment under the write lock.
SetEnabled(t, b) ==
    /\ CanCall(t)
    /\ lock = NoOne
    /\ enabled' = b
    /\ ncalls' = ncalls + 1
    /\ UNCHANGED <<buffer, file, fileOpen, count, hasClosed, lock, sigStarted,
                   sigComplete, signallers, pc, nsent, hist, other>>

\* ---------------------------------------------------------------- Close

\* Mutant of CloseCall: Close without the hasClosed check.
CloseCall_noCheck(t) ==
    /\ CanCall(t)
    /\ ncalls' = ncalls + 1
    /\ closeSnap' = [closeSnap EXCEPT ![t] = Len(accepted)]
    /\ Goto(t, "C_set")
    /\ UNCHANGED <<shared, nsent, accepted, closeRet, other>>

\* Close, line 59: the unsynchronised read of hasClosed.
CloseCall(t) ==
    /\ CanCall(t)
    /\ ncalls' = ncalls + 1
    /\ closeSnap' = [closeSnap EXCEPT ![t] = Len(accepted)]
    /\ Goto(t, IF hasClosed THEN "C_ret" ELSE "C_set")
    /\ UNCHANGED <<shared, nsent, accepted, closeRet, other>>

\* Close, line 63: this.hasClosed = true.
CloseSet(t) ==
    /\ pc[t] = "C_set"
    /\ hasClosed' = TRUE
    /\ Goto(t, "C_mark")
    /\ UNCHANGED <<buffer, file, fileOpen, count, enabled, lock, sigStarted,
                   sigComplete, signallers, ncalls, nsent, hist, other>>

\* Close, line 65: print of the close marker.
CloseMark(t) == print(t, CloseMsg, "C_mark", "C_start")

\* Close, line 68: this.shutdown.Start() raises the shutdown signal.
CloseStart(t) ==
    /\ pc[t] = "C_start"
    /\ sigStarted' = TRUE
    /\ Goto(t, "C_fl_lock")
    /\ UNCHANGED <<buffer, file, fileOpen, count, enabled, hasClosed, lock,
                   sigComplete, signallers, ncalls, nsent, hist, other>>

\* Close, line 71: this.flushLogs(); its panic propagates to the caller.
CloseFlushLock(t) == flushLock(t, "C_fl_lock", "C_fl_copy")

CloseFlushCopy(t) == flushCopy(t, "C_fl_copy", "C_fl_sync", "panicked")

CloseFlushSync(t) == flushSync(t, "C_fl_sync", "C_fclose", "panicked")

\* Close, line 74: this.file.Close(), outside the lock.
CloseFile(t) ==
    /\ pc[t] = "C_fclose"
    /\ fileOpen' = FALSE
    /\ Goto(t, "C_wait")
    /\ UNCHANGED <<buffer, file, count, enabled, hasClosed, lock, sigStarted,
                   sigComplete, signallers, ncalls, nsent, hist, other>>

\* Close, line 76: WaitForTimeout returns false once completion was raised.
CloseWaitAck(t) ==
    /\ pc[t] = "C_wait"
    /\ sigComplete
    /\ Goto(t, "C_ret")
    /\ UNCHANGED <<shared, ncalls, nsent, hist, other>>

\* Close, line 76: WaitForTimeout returns true when the timeout elapses
\* with completion not raised.
CloseWaitTimeout(t) ==
    /\ pc[t] = "C_wait"
    /\ ~sigComplete
    /\ Goto(t, "C_timeout")
    /\ UNCHANGED <<shared, ncalls, nsent, hist, other>>

\* Close, line 77: print of the timeout report.
CloseTimeoutMark(t) == print(t, TimeoutMsg, "C_timeout", "C_ret")

\* Close returns to its caller (lines 60 and 79).
CloseReturn(t) ==
    /\ pc[t] = "C_ret"
    /\ Goto(t, "idle")
    /\ closeRet' = TRUE
    /\ closeSnap' = [closeSnap EXCEPT ![t] = 0]
    /\ UNCHANGED <<shared, ncalls, nsent, accepted, other>>

\* ------------------------------------------------------------ asyncFlush

\* select, case <-this.shutdown.Signal.
LoopShutdown ==
    /\ pc[Loop] = "L_select"
    /\ sigStarted
    /\ Goto(Loop, "L_mark")
    /\ UNCHANGED <<shared, ncalls, nsent, hist, other>>

\* select, case <-this.flushChan: one blocked sender is released.
LoopFlushNow ==
    /\ pc[Loop] = "L_select"
    /\ signallers > 0
    /\ signallers' = signallers - 1
    /\ Goto(Loop, "L_fl_lock")
    /\ UNCHANGED <<buffer, file, fileOpen, count, enabled, hasClosed, lock,
                   sigStarted, sigComplete, ncalls, nsent, hist, other>>

\* select, case <-time.After(flushSec): chosen when the interval elapses
\* with neither of the other two channels ready.
LoopTimer ==
    /\ pc[Loop] = "L_select"
    /\ ~sigStarted
    /\ signallers = 0
    /\ Goto(Loop, "L_fl_lock")
    /\ UNCHANGED <<shared, ncalls, nsent, hist, other>>

\* this.flushLogs() of the two flushing cases; a panic unwinds asyncFlush.
LoopFlushLock == flushLock(Loop, "L_fl_lock", "L_fl_copy")

LoopFlushCopy == flushCopy(Loop, "L_fl_copy", "L_fl_sync", "L_panic")

LoopFlushSync == flushSync(Loop, "L_fl_sync", "L_select", "L_panic")

\* The print of the shutdown marker, lines 131-135.
LoopMark == print(Loop, ShutdownMsg, "L_mark", "L_return")

\* defer this.shutdown.Complete(): runs on return and on panic.
LoopComplete ==
    /\ pc[Loop] \in {"L_return", "L_panic"}
    /\ sigComplete' = TRUE
    /\ Goto(Loop, IF pc[Loop] = "L_return" THEN "L_done" ELSE "L_crashed")
    /\ UNCHANGED <<buffer, file, fileOpen, count, enabled, hasClosed, lock,
                   sigStarted, signallers, ncalls, nsent, hist, other>>

\* Mutant of SignalTimeout: the send on flushChan has no timeout case.
SignalTimeout_none ==
    /\ FALSE
    /\ UNCHANGED vars

\* The goroutine spawned by print gives up after its 5 s timeout.
SignalTimeout ==
    /\ signallers > 0
    /\ signallers' = signallers - 1
    /\ UNCHANGED <<buffer, file, fileOpen, count, enabled, hasClosed, lock,
                   sigStarted, sigComplete, pc, ncalls, nsent, hist, other>>

\* ------------------------------------------------------------------ spec

Next ==
    \/ \E t \in Threads : PrintCall(t)
    \/ \E t \in Threads : PrintDrop(t)
    \/ \E t \in Threads : PrintBody(t)
    \/ \E t \in Threads, b \in BOOLEAN : SetEnabled(t, b)
    \/ \E t \in Threads : CloseCall(t)
    \/ \E t \in Threads : CloseSet(t)
    \/ \E t \in Threads : CloseMark(t)
    \/ \E t \in Threads : CloseStart(t)
    \/ \E t \in Threads : CloseFlushLock(t)
    \/ \E t \in Threads : CloseFlushCopy(t)
    \/ \E t \in Threads : CloseFlushSync(t)
    \/ \E t \in Threads : CloseFile(t)
    \/ \E t \in Threads : CloseWaitAck(t)
    \/ \E t \in Threads : CloseWaitTimeout(t)
    \/ \E t \in Threads : CloseTimeoutMark(t)
    \/ \E t \in Threads : CloseReturn(t)
    \/ LoopShutdown
    \/ LoopFlushNow
    \/ LoopTimer
    \/ LoopFlushLock
    \/ LoopFlushCopy
    \/ LoopFlushSync
    \/ LoopMark
    \/ LoopComplete
    \/ SignalTimeout

Spec == Init /\ [][Next]_vars

\* Steps a goroutine takes inside a call it has already made; callers are
\* under no obligation to make further calls.
CallStep(t) ==
    \/ PrintDrop(t)
    \/ PrintBody(t)
    \/ CloseSet(t)
    \/ CloseMark(t)
    \/ CloseStart(t)
    \/ CloseFlushLock(t)
    \/ CloseFlushCopy(t)
    \/ CloseFlushSync(t)
    \/ CloseFile(t)
    \/ CloseWaitAck(t)
    \/ CloseWaitTimeout(t)
    \/ CloseTimeoutMark(t)
    \/ CloseReturn(t)

LoopStep ==
    \/ LoopShutdown
    \/ LoopFlushNow
    \/ LoopTimer
    \/ LoopFlushLock
    \/ LoopFlushCopy
    \/ LoopFlushSync
    \/ LoopMark
    \/ LoopComplete

\* Every runnable goroutine is eventually scheduled, timers expire, and a
\* goroutine waiting for the mutex eventually gets it (sync.Mutex hands the
\* lock to starved waiters), hence strong fairness on the steps that wait
\* for the lock.
FairSpec ==
    /\ Spec
    /\ \A t \in Threads : SF_vars(CallStep(t))
    /\ SF_vars(LoopStep)
    /\ WF_vars(SignalTimeout)

\* -------------------------------------------------- rotation (flog.go)

\* Number of Rotate calls.
MaxRot == 2

\* SetFlushIntervalSec is called with 1..MaxFlushSec seconds.
MaxFlushSec == 1

\* The log types of flog.New.
BufferedFile == "buffered"
DirectFile == "direct"

\* The callers of the rotation scenario: one goroutine, as in TestLog.
RotCallers == {"t1"}

\* The dates the clock goes through (time.Now() in Rotate).
Days == << [year |-> 2015, month |-> 1, day |-> 12],
           [year |-> 2015, month |-> 11, day |-> 2] >>

\* fmt.Sprintf("%d", n): the decimal digits of n, without padding.
RECURSIVE Digits(_)
Digits(n) == IF n < 10 THEN <<n>> ELSE Append(Digits(n \div 10), n % 10)

\* Rotate's fmt.Sprintf("%d%d%d-%s.log", Year, Month, Day, name): the date
\* prefix that names the archive file of the (single) logger name.
DateName(d) == Digits(d.year) \o Digits(d.month) \o Digits(d.day)

\* DirectLog.print: log.Logger writes the record straight to the file; the
\* error of a write on a closed handle is dropped by log.Logger.Print.
directWrite(m) ==
    /\ file' = IF fileOpen THEN file \o Render(m) ELSE file
    /\ accepted' = IF fileOpen THEN Append(accepted, m) ELSE accepted

\* DirectLog.Close, under the write lock: disable, print the close marker,
\* Sync and Close the file.
directClose ==
    /\ enabled' = FALSE
    /\ directWrite(CloseMsg)
    /\ fileOpen' = FALSE

\* flog.New(name, path, logType): opens (creating it if need be) the file at
\* <path>/<name>.log for appending, builds the logger, starts the flush
\* goroutine of a BufferedLog, and prints the init marker: into the buffer
\* of a BufferedLog, into the file of a DirectLog.
NewLog(logType) ==
    LET opened == IF livePresent THEN file ELSE <<>> IN
    /\ livePresent' = TRUE
    /\ fileOpen' = TRUE
    /\ kind' = logType
    /\ enabled' = TRUE
    /\ hasClosed' = FALSE
    /\ lock' = NoOne
    /\ sigStarted' = FALSE
    /\ sigComplete' = FALSE
    /\ signallers' = 0
    /\ accepted' = <<InitMsg>>
    /\ IF logType = BufferedFile
         THEN /\ buffer' = Render(InitMsg)
              /\ count' = 1
              /\ file' = opened
         ELSE /\ buffer' = <<>>
              /\ count' = 0
              /\ file' = opened \o Render(InitMsg)

\* State after flog.New(name, path, logType) in a fresh base directory.
RotInit ==
    /\ \E logType \in {BufferedFile, DirectFile} :
          /\ kind = logType
          /\ buffer = IF logType = BufferedFile THEN Render(InitMsg) ELSE <<>>
          /\ file = IF logType = BufferedFile THEN <<>> ELSE Render(InitMsg)
          /\ count = IF logType = BufferedFile THEN 1 ELSE 0
          /\ pc = [p \in Procs |->
                     IF p # Loop THEN "idle"
                     ELSE IF logType = BufferedFile THEN "L_select"
                     ELSE "L_none"]
    /\ fileOpen = TRUE
    /\ enabled = TRUE
    /\ hasClosed = FALSE
    /\ lock = NoOne
    /\ sigStarted = FALSE
    /\ sigComplete = FALSE
    /\ signallers = 0
    /\ ncalls = 0
    /\ nsent = [t \in Threads |-> 0]
    /\ accepted = <<InitMsg>>
    /\ closeSnap = [t \in Threads |-> 0]
    /\ closeRet = FALSE
    /\ flushSec = DefaultFlushIntervalSec
    /\ livePresent = TRUE
    /\ archive = <<>>
    /\ today = 1
    /\ rotations = 0
    /\ inRotate = NoOne
    /\ NoLogBuffer

\* DirectLog.Print: under the read lock, dropped when disabled.
DirectPrint(t) ==
    /\ kind = DirectFile
    /\ CanCall(t)
    /\ ncalls' = ncalls + 1
    /\ IF enabled
         THEN /\ nsent' = [nsent EXCEPT ![t] = @ + 1]
              /\ directWrite(UserMsg(t, nsent[t] + 1))
         ELSE UNCHANGED <<nsent, file, accepted>>
    /\ UNCHANGED <<buffer, fileOpen, count, enabled, hasClosed, lock,
                   sigStarted, sigComplete, signallers, pc, closeSnap,
                   closeRet, rotVars, lbVars>>

\* DirectLog.Close.
DirectClose(t) ==
    /\ kind = DirectFile
    /\ CanCall(t)
    /\ ncalls' = ncalls + 1
    /\ directClose
    /\ closeRet' = TRUE
    /\ UNCHANGED <<buffer, count, hasClosed, lock, sigStarted, sigComplete,
                   signallers, pc, nsent, closeSnap, rotVars, lbVars>>

\* BufferedLog.SetFlushIntervalSec: the atomic store.
SetFlushIntervalSec(t, n) ==
    /\ kind = BufferedFile
    /\ CanCall(t)
    /\ ncalls' = ncalls + 1
    /\ flushSec' = n
    /\ UNCHANGED <<shared, pc, nsent, hist, kind, livePresent, archive,
                   today, rotations, inRotate, lbVars>>

\* The BufferedLog calls of the rotation scenario.
RotPrintCall(t) == kind = BufferedFile /\ PrintCall(t)
RotSetEnabled(t, b) == kind = BufferedFile /\ SetEnabled(t, b)
RotCloseCall(t) == kind = BufferedFile /\ CloseCall(t)
RotCloseReturn(t) == inRotate # t /\ CloseReturn(t)

\* Rotate, line 124: log.Close().  A DirectLog closes under its lock; a
\* BufferedLog goes through the steps of Close.
RotateCall(t) ==
    /\ CanCall(t)
    /\ rotations < MaxRot
    /\ inRotate = NoOne
    /\ inRotate' = t
    /\ IF kind = BufferedFile
         THEN /\ closeSnap' = [closeSnap EXCEPT ![t] = Len(accepted)]
              /\ Goto(t, IF hasClosed THEN "C_ret" ELSE "C_set")
              /\ UNCHANGED <<file, fileOpen, enabled, accepted>>
         ELSE /\ directClose
              /\ Goto(t, "R_rename")
              /\ UNCHANGED closeSnap
    /\ UNCHANGED <<buffer, count, hasClosed, lock, sigStarted, sigComplete,
                   signallers, ncalls, nsent, closeRet, kind, flushSec,
                   livePresent, archive, today, rotations, lbVars>>

\* Rotate's call of BufferedLog.Close returns.
RotateClosed(t) ==
    /\ pc[t] = "C_ret"
    /\ inRotate = t
    /\ Goto(t, "R_rename")
    /\ closeRet' = TRUE
    /\ closeSnap' = [closeSnap EXCEPT ![t] = 0]
    /\ UNCHANGED <<shared, ncalls, nsent, accepted, rotVars, lbVars>>

\* Mutant of RotateRename: the live file is removed instead of being moved
\* under old/.
RotateRename_noMove(t) ==
    /\ pc[t] = "R_rename"
    /\ livePresent' = FALSE
    /\ Goto(t, "R_new")
    /\ UNCHANGED <<shared, ncalls, nsent, hist, kind, flushSec, archive,
                   today, rotations, inRotate, lbVars>>

\* Rotate, lines 126-153: mkdir old, then os.Rename of the live file to
\* old/<date>-<name>.log, which replaces a file already at that path;
\* Rotate panics when the rename fails.
RotateRename(t) ==
    /\ pc[t] = "R_rename"
    /\ IF livePresent
         THEN /\ archive' = (DateName(Days[today]) :> file) @@ archive
              /\ livePresent' = FALSE
              /\ Goto(t, "R_new")
         ELSE /\ Goto(t, "panicked")
              /\ UNCHANGED <<archive, livePresent>>
    /\ UNCHANGED <<shared, ncalls, nsent, hist, kind, flushSec, today,
                   rotations, inRotate, lbVars>>

\* Mutant of RotateNew: the new logger is always a BufferedLog with the
\* default flush interval.
RotateNew_defaults(t) ==
    /\ pc[t] = "R_new"
    /\ NewLog(BufferedFile)
    /\ flushSec' = DefaultFlushIntervalSec
    /\ pc' = [pc EXCEPT ![t] = "idle", ![Loop] = "L_select"]
    /\ closeSnap' = [u \in Threads |-> 0]
    /\ closeRet' = FALSE
    /\ rotations' = rotations + 1
    /\ inRotate' = NoOne
    /\ UNCHANGED <<ncalls, nsent, archive, today, lbVars>>

\* Rotate, lines 155-165: a BufferedLog is replaced by New(name, baseDir,
\* BufferedFile) whose flush interval (DefaultFlushIntervalSec from New) is
\* then set to the old instance's, any other logger by New(name, baseDir,
\* DirectFile).  From here on the instance variables are those of the new
\* logger; the goroutines of the old instance work on its own buffer and
\* its closed handle only.
RotateNew(t) ==
    /\ pc[t] = "R_new"
    /\ IF kind = BufferedFile
         THEN /\ NewLog(BufferedFile)
              /\ flushSec' = flushSec
         ELSE /\ NewLog(DirectFile)
              /\ UNCHANGED flushSec
    /\ pc' = [pc EXCEPT ![t] = "idle",
                        ![Loop] = IF kind = BufferedFile THEN "L_select"
                                  ELSE "L_none"]
    /\ closeSnap' = [u \in Threads |-> 0]
    /\ closeRet' = FALSE
    /\ rotations' = rotations + 1
    /\ inRotate' = NoOne
    /\ UNCHANGED <<ncalls, nsent, archive, today, lbVars>>

\* Midnight passes.
DayPasses ==
    /\ today < Len(Days)
    /\ today' = today + 1
    /\ UNCHANGED <<logVars, kind, flushSec, livePresent, archive, rotations,
                   inRotate, lbVars>>

RotNext ==
    \/ \E t \in RotCallers : RotPrintCall(t)
    \/ \E t \in RotCallers : PrintDrop(t)
    \/ \E t \in RotCallers : PrintBody(t)
    \/ \E t \in RotCallers, b \in BOOLEAN : RotSetEnabled(t, b)
    \/ \E t \in RotCallers, n \in 1..MaxFlushSec : SetFlushIntervalSec(t, n)
    \/ \E t \in RotCallers : RotCloseCall(t)
    \/ \E t \in RotCallers : CloseSet(t)
    \/ \E t \in RotCallers : CloseMark(t)
    \/ \E t \in RotCallers : CloseStart(t)
    \/ \E t \in RotCallers : CloseFlushLock(t)
    \/ \E t \in RotCallers : CloseFlushCopy(t)
    \/ \E t \in RotCallers : CloseFlushSync(t)
    \/ \E t \in RotCallers : CloseFile(t)
    \/ \E t \in RotCallers : CloseWaitAck(t)
    \/ \E t \in RotCallers : CloseWaitTimeout(t)
    \/ \E t \in RotCallers : CloseTimeoutMark(t)
    \/ \E t \in RotCallers : RotCloseReturn(t)
    \/ \E t \in RotCallers : DirectPrint(t)
    \/ \E t \in RotCallers : DirectClose(t)
    \/ \E t \in RotCallers : RotateCall(t)
    \/ \E t \in RotCallers : RotateClosed(t)
    \/ \E t \in RotCallers : RotateRename(t)
    \/ \E t \in RotCallers : RotateNew(t)
    \/ DayPasses
    \/ LoopShutdown
    \/ LoopFlushNow
    \/ LoopTimer
    \/ LoopFlushLock
    \/ LoopFlushCopy
    \/ LoopFlushSync
    \/ LoopMark
    \/ LoopComplete
    \/ SignalTimeout

RotSpec == RotInit /\ [][RotNext]_vars

\* ------------------------------------------------------------ LogBuffer

\* Number of LogBuffer calls the callers make in total.
MaxLBOps == 4

\* Largest capacity given to NewLogBuffer and SetMaxSize; the smallest is
\* -1, the capacity being an unchecked int.
MaxCap == 2

\* The Value of a ring slot that has never been written (nil).
Nil == 0

\* No file logger is in use.
NoLogger ==
    /\ buffer = <<>>
    /\ file = <<>>
    /\ fileOpen = FALSE
    /\ count = 0
    /\ enabled = FALSE
    /\ hasClosed = FALSE
    /\ lock = NoOne
    /\ sigStarted = FALSE
    /\ sigComplete = FALSE
    /\ signallers = 0
    /\ pc = [p \in Procs |-> IF p = Loop THEN "L_none" ELSE "idle"]
    /\ ncalls = 0
    /\ nsent = [t \in Threads |-> 0]
    /\ accepted = <<>>
    /\ closeSnap = [t \in Threads |-> 0]
    /\ closeRet = FALSE
    /\ kind = DirectFile
    /\ flushSec = DefaultFlushIntervalSec
    /\ livePresent = FALSE
    /\ archive = <<>>
    /\ today = 1
    /\ rotations = 0
    /\ inRotate = NoOne

\* State after NewLogBuffer(n): an empty list with maxSize n, or ring.New(n),
\* which is nil unless n > 0.
LBInit ==
    /\ \E i \in {"list", "ring"}, n \in -1..MaxCap :
          /\ impl = i
          /\ maxSize = n
          /\ logs = IF i = "ring" /\ n > 0 THEN [k \in 1..n |-> Nil] ELSE <<>>
          /\ ringPos = IF i = "ring" /\ n > 0 THEN 1 ELSE 0
    /\ changed = FALSE
    /\ lbEnabled = TRUE
    /\ lbpc = [t \in Threads |-> "idle"]
    /\ lbcalls = 0
    /\ inserted = <<>>
    /\ dropped = 0
    /\ readMark = 0
    /\ sizeMark = 0
    /\ readRet = <<>>
    /\ hasRet = FALSE
    /\ NoLogger

\* A caller may start another LogBuffer call.
LBCanCall(t) == lbpc[t] = "idle" /\ lbcalls < MaxLBOps

\* lock.Lock() succeeds: nobody holds the read lock (the calls that take the
\* write lock are single steps).
NoReaders == \A u \in Threads : lbpc[u] \notin {"ReadAll", "HasChanged"}

\* Mutant of listPush: nothing is removed.
listPush_noEvict(m) == <<m>> \o logs

\* list version of Print: PushFront, then Remove(Back()) when over maxSize.
listPush(m) ==
    LET pushed == <<m>> \o logs
    IN  IF Len(pushed) > maxSize
          THEN SubSeq(pushed, 1, Len(pushed) - 1)
          ELSE pushed

\* ring version of Print: this.logs.Value = msg.
ringStore(m) == [logs EXCEPT ![ringPos] = m]

\* Mutant of RingDo: the slots are visited from the first one allocated.
RingDo_fromFirst(r, p) == r

\* ring.Do from the slot this.logs points at, once around.
RingDo(r, p) == [i \in 1..Len(r) |-> r[((p + i - 2) % Len(r)) + 1]]

NotNil(v) == v # Nil

\* What ReadAll collects: the list from Front to Back, or the non-nil slots
\* of the ring in the order of ring.Do.
ReadList ==
    IF impl = "list" THEN logs
    ELSE IF ringPos = 0 THEN <<>>
    ELSE SelectSeq(RingDo(logs, ringPos), NotNil)

\* Mutant of LBPrint: Print without the test of enabled.
LBPrint_noCheck(t) ==
    /\ LBCanCall(t)
    /\ NoReaders
    /\ lbcalls' = lbcalls + 1
    /\ IF impl = "ring" /\ ringPos = 0
         THEN /\ lbpc' = [lbpc EXCEPT ![t] = "panicked"]
              /\ UNCHANGED <<logs, ringPos, changed, inserted>>
         ELSE LET m == Len(inserted) + 1
              IN  /\ logs' = IF impl = "list" THEN listPush(m)
                             ELSE ringStore(m)
                  /\ ringPos' = IF impl = "list" THEN ringPos
                                ELSE (ringPos % Len(logs)) + 1
                  /\ changed' = TRUE
                  /\ inserted' = Append(inserted, m)
                  /\ UNCHANGED lbpc
    /\ UNCHANGED <<impl, maxSize, lbEnabled, dropped, readMark, sizeMark,
                   readRet, hasRet, logVars, rotVars>>

\* LogBuffer.Print, under the write lock.  The ring version dereferences a
\* nil ring when the capacity was not positive, and panics.
LBPrint(t) ==
    /\ LBCanCall(t)
    /\ NoReaders
    /\ lbcalls' = lbcalls + 1
    /\ IF ~lbEnabled
         THEN /\ dropped' = dropped + 1
              /\ UNCHANGED <<logs, ringPos, changed, inserted, lbpc>>
         ELSE IF impl = "ring" /\ ringPos = 0
                THEN /\ lbpc' = [lbpc EXCEPT ![t] = "panicked"]
                     /\ UNCHANGED <<logs, ringPos, changed, inserted, dropped>>
                ELSE LET m == Len(inserted) + 1
                     IN  /\ logs' = IF impl = "list" THEN listPush(m)
                                    ELSE ringStore(m)
                         /\ ringPos' = IF impl = "list" THEN ringPos
                                       ELSE (ringPos % Len(logs)) + 1
                         /\ changed' = TRUE
                         /\ inserted' = Append(inserted, m)
                         /\ UNCHANGED dropped
                         /\ UNCHANGED lbpc
    /\ UNCHANGED <<impl, maxSize, lbEnabled, readMark, sizeMark, readRet,
                   hasRet, logVars, rotVars>>

\* LogBuffer.SetEnabled.
LBSetEnabled(t, b) ==
    /\ LBCanCall(t)
    /\ NoReaders
    /\ lbcalls' = lbcalls + 1
    /\ lbEnabled' = b
    /\ UNCHANGED <<impl, logs, ringPos, maxSize, changed, lbpc, inserted, dropped,
                   readMark, sizeMark, readRet, hasRet, logVars, rotVars>>

\* LogBuffer.SetMaxSize (list version only): removes Len - n records from
\* the back; for a negative n the loop goes on past the empty list and
\* Remove(nil) panics before maxSize is assigned.
LBSetMaxSize(t, n) ==
    /\ impl = "list"
    /\ LBCanCall(t)
    /\ NoReaders
    /\ lbcalls' = lbcalls + 1
    /\ LET diff == n - Len(logs)
       IN  IF diff >= 0
             THEN /\ maxSize' = n
                  /\ sizeMark' = Len(inserted)
                  /\ UNCHANGED <<logs, lbpc>>
             ELSE IF n >= 0
                    THEN /\ logs' = SubSeq(logs, 1, n)
                         /\ maxSize' = n
                         /\ sizeMark' = Len(inserted)
                         /\ UNCHANGED lbpc
                    ELSE /\ logs' = <<>>
                         /\ lbpc' = [lbpc EXCEPT ![t] = "panicked"]
                         /\ sizeMark' = Len(inserted)
                         /\ UNCHANGED maxSize
    /\ UNCHANGED <<impl, ringPos, changed, lbEnabled, inserted, dropped, readMark,
                   readRet, hasRet, logVars, rotVars>>

\* LogBuffer.ReadAll: lock.RLock().
LBReadAllBegin(t) ==
    /\ LBCanCall(t)
    /\ lbcalls' = lbcalls + 1
    /\ lbpc' = [lbpc EXCEPT ![t] = "ReadAll"]
    /\ UNCHANGED <<impl, logs, ringPos, maxSize, changed, lbEnabled, inserted, dropped,
                   readMark, sizeMark, readRet, hasRet, logVars, rotVars>>

\* LogBuffer.ReadAll: collect the records, this.changed = false, return.
LBReadAllEnd(t) ==
    /\ lbpc[t] = "ReadAll"
    /\ readRet' = ReadList
    /\ changed' = FALSE
    /\ readMark' = Len(inserted)
    /\ lbpc' = [lbpc EXCEPT ![t] = "idle"]
    /\ UNCHANGED <<impl, logs, ringPos, maxSize, lbEnabled, lbcalls, inserted, dropped,
                   sizeMark, hasRet, logVars, rotVars>>

\* LogBuffer.HasChanged: lock.RLock().
LBHasChangedBegin(t) ==
    /\ LBCanCall(t)
    /\ lbcalls' = lbcalls + 1
    /\ lbpc' = [lbpc EXCEPT ![t] = "HasChanged"]
    /\ UNCHANGED <<impl, logs, ringPos, maxSize, changed, lbEnabled, inserted, dropped,
                   readMark, sizeMark, readRet, hasRet, logVars, rotVars>>

\* Mutant of LBHasChangedEnd: reading the flag clears it.
LBHasChangedEnd_clears(t) ==
    /\ lbpc[t] = "HasChanged"
    /\ hasRet' = changed
    /\ changed' = FALSE
    /\ lbpc' = [lbpc EXCEPT ![t] = "idle"]
    /\ UNCHANGED <<impl, logs, ringPos, maxSize, lbEnabled, lbcalls,
                   inserted, dropped, readMark, sizeMark, readRet, logVars, rotVars>>

\* LogBuffer.HasChanged: return this.changed.
LBHasChangedEnd(t) ==
    /\ lbpc[t] = "HasChanged"
    /\ hasRet' = changed
    /\ lbpc' = [lbpc EXCEPT ![t] = "idle"]
    /\ UNCHANGED <<impl, logs, ringPos, maxSize, changed, lbEnabled, lbcalls,
                   inserted, dropped, readMark, sizeMark, readRet, logVars, rotVars>>

LBNext ==
    \/ \E t \in Threads : LBPrint(t)
    \/ \E t \in Threads, b \in BOOLEAN : LBSetEnabled(t, b)
    \/ \E t \in Threads, n \in -1..MaxCap : LBSetMaxSize(t, n)
    \/ \E t \in Threads : LBReadAllBegin(t)
    \/ \E t \in Threads : LBReadAllEnd(t)
    \/ \E t \in Threads : LBHasChangedBegin(t)
    \/ \E t \in Threads : LBHasChangedEnd(t)

LBSpec == LBInit /\ [][LBNext]_vars

\* The records the buffer holds.
Held ==
    IF impl = "list" THEN Len(logs)
    ELSE Cardinality({i \in 1..Len(logs) : logs[i] # Nil})

\* ----------------------------------------------------- reading the file

\* The token sequence is a sequence of fully formed lines.
WholeLines(s) ==
    /\ Len(s) % 2 = 0
    /\ \A i \in 1..Len(s) : (s[i] = NL) <=> (i % 2 = 0)

\* The rendering of a sequence of records, one line each.
RenderAll(q) ==
    [i \in 1..(2 * Len(q)) |-> IF i % 2 = 1 THEN q[(i + 1) \div 2] ELSE NL]

IsUser(m) == m.kind = "user"

\* The caller records of a token or record sequence, in order.
UserRecords(s) == SelectSeq(s, IsUser)

Occurrences(s, m) == Cardinality({i \in 1..Len(s) : s[i] = m})

InFlushCS(p) == pc[p] \in {"C_fl_copy", "C_fl_sync", "L_fl_copy", "L_fl_sync"}

InClose(t) ==
    pc[t] \in {"C_set", "C_mark", "C_start", "C_fl_lock", "C_fl_copy",
               "C_fl_sync", "C_fclose", "C_wait", "C_timeout", "C_ret"}

\* The wait of some Close for the loop's acknowledgment has timed out.
TimedOut ==
    \/ \E t \in Threads : pc[t] = "C_timeout"
    \/ Occurrences(accepted, TimeoutMsg) > 0

\* ---------------------------------------------------------------- claims

\* C1: once a call of Close returns (no other call of Close being in
\* progress), every caller record that print had accepted before that call
\* was made is in the backing file, exactly once and in acceptance order.
C1_CloseDrains ==
    \A t \in Threads :
        (pc[t] = "C_ret" /\ \A u \in Threads \ {t} : ~InClose(u)) =>
            LET want == UserRecords(SubSeq(accepted, 1, closeSnap[t]))
                got == UserRecords(file)
            IN  /\ Len(got) >= Len(want)
                /\ SubSeq(got, 1, Len(want)) = want
                /\ \A i \in 1..Len(want) : Occurrences(file, want[i]) = 1

\* The file's contents followed by the buffer's contents are exactly the
\* accepted records, rendered one line each, in acceptance order.
FileThenBuffer == file \o buffer = RenderAll(accepted)

\* The file changes, and the buffer shrinks, only by the whole buffer moving
\* to the end of the file.
WholeBufferMoves ==
    (file' # file \/ Len(buffer') < Len(buffer)) =>
        (file' = file \o buffer /\ buffer' = <<>>)

\* C2: in every reachable state the file followed by the buffer equals the
\* sequence of accepted records in acceptance order, and every step that
\* writes the file or takes from the buffer (any flush) moves the whole
\* buffer to the end of the file: nothing reordered, duplicated or dropped.
C2_Ordering == []FileThenBuffer /\ [][WholeBufferMoves]_vars

\* C2 witness: records of both callers accepted, some already flushed to
\* the file and some still in the buffer.
C2_Witness ==
    /\ file # <<>>
    /\ buffer # <<>>
    /\ \A t \in Threads : nsent[t] >= 1 /\ pc[t] = "idle"
    /\ \E i \in 1..Len(file) : file[i].kind = "user"
    /\ \E i \in 1..Len(buffer) : buffer[i].kind = "user"

\* C3: file and buffer always consist of whole lines, and once the buffer
\* has been flushed with no Print in progress, the file holds every record
\* the callers sent, each exactly once, and no other caller record.
C3_ConcurrentWriters ==
    /\ WholeLines(file)
    /\ WholeLines(buffer)
    /\ (buffer = <<>> /\ \A t \in Threads : pc[t] # "P_print") =>
           /\ \A t \in Threads : \A k \in 1..nsent[t] :
                  Occurrences(file, UserMsg(t, k)) = 1
           /\ \A i \in 1..Len(file) :
                  file[i].kind = "user" => file[i].n <= nsent[file[i].who]

\* C3 witness: both callers have printed, the later print entered print
\* while the other caller's record was already sent, and all is flushed.
C3_Witness ==
    /\ buffer = <<>>
    /\ \A t \in Threads : nsent[t] >= 1 /\ pc[t] # "P_print"
    /\ Occurrences(file, UserMsg("t1", 1)) = 1
    /\ Occurrences(file, UserMsg("t2", 1)) = 1

\* C4: once Close has been called (hasClosed set), enabled is false.
C4_CloseDisables == hasClosed => ~enabled

\* C5: a call of Close made after some call of Close has returned goes
\* straight to its return and changes nothing of the instance: no marker,
\* no shutdown request, no flush, no closing of the file.
C5_CloseIdempotent ==
    [][\A t \in Threads :
          (closeRet /\ pc[t] = "idle" /\ InClose(t)') =>
              /\ pc'[t] = "C_ret"
              /\ UNCHANGED <<shared, accepted>>]_vars

\* C5 witness: a Close called after another Close returned is about to
\* return, nothing having been accepted since it was called.
C5_Witness ==
    /\ closeRet
    /\ \E t \in Threads : pc[t] = "C_ret" /\ closeSnap[t] = Len(accepted)

\* C6: Close flushes and closes the file only after the loop has
\* acknowledged shutdown or the wait for it has timed out.
C6_CloseOrder ==
    /\ \A t \in Threads :
           pc[t] \in {"C_fl_lock", "C_fl_copy", "C_fl_sync", "C_fclose"}
               => (sigComplete \/ TimedOut)
    /\ ~fileOpen => (sigComplete \/ TimedOut)

\* C7: no flush (write or sync) is in progress on a closed file handle.
C7_NoFlushAfterClose == \A p \in Procs : InFlushCS(p) => fileOpen

\* C8: under fair scheduling every call of Close eventually returns.
C8_CloseReturns == \A t \in Threads : InClose(t) ~> (pc[t] = "idle")

\* C9: when the loop has signalled completion after the shutdown signal,
\* its shutdown marker has been flushed to the file.
C9_LoopLastFlush ==
    (pc[Loop] = "L_done" /\ sigComplete) =>
        Occurrences(buffer, ShutdownMsg) = 0

\* C10 (as claimed): the copy of a flush executed while count is below the
\* threshold leaves file and buffer unchanged.
C10_FlushBelowThresholdNoop ==
    [][\A p \in Procs :
          (pc[p] \in {"C_fl_copy", "L_fl_copy"} /\ pc'[p] # pc[p]
                /\ count < FlushThreshold) =>
              (file' = file /\ buffer' = buffer)]_vars

\* C10 (amended): every flush that does not fail, whatever the count, moves
\* the buffer's full contents to the end of the file and leaves the buffer
\* empty; its sync step then resets count and changes neither.
C10_FlushCopiesAll ==
    [][\A p \in Procs :
          /\ (pc[p] \in {"C_fl_copy", "L_fl_copy"}
                /\ pc'[p] \in {"C_fl_sync", "L_fl_sync"}) =>
                 (file' = file \o buffer /\ buffer' = <<>>)
          /\ (pc[p] \in {"C_fl_sync", "L_fl_sync"}
                /\ pc'[p] \in {"C_fclose", "L_select"}) =>
                 (buffer' = <<>> /\ file' = file /\ count' = 0)]_vars

\* C10 witness: a flush of a buffer below the threshold has written the
\* file and is about to sync.
C10_Witness ==
    /\ pc[Loop] = "L_fl_sync"
    /\ count < FlushThreshold
    /\ file # <<>>
    /\ buffer = <<>>

\* C11: a flush that runs straight after a completed flush, no record
\* having been appended in between (count is still 0), writes nothing: the
\* file and the buffer are after it what they were after the first flush.
C11_FlushIdempotent ==
    [][\A p \in Procs :
          (pc[p] \in {"C_fl_copy", "L_fl_copy"} /\ pc'[p] # pc[p] /\ count = 0)
              => (file' = file /\ buffer' = buffer)]_vars

\* The copy step of a second flush in a row has run after a flush that
\* wrote records to the file.
C11_Witness ==
    /\ \E p \in Procs : pc[p] \in {"C_fl_sync", "L_fl_sync"}
    /\ count = 0
    /\ file # <<>>

\* The flush step of p is one on which io.Copy or Sync returns an error:
\* the handle is closed and there is something to write or to sync.
FlushFails(p) ==
    /\ InFlushCS(p)
    /\ ~fileOpen
    /\ pc[p] \in {"C_fl_sync", "L_fl_sync"} \/ buffer # <<>>

C13_DisabledPrintNoop ==
    /\ [][\A t \in Threads :
            (pc[t] = "idle" /\ pc'[t] \in {"P_print", "P_drop"})
                => /\ (pc'[t] = "P_drop") <=> ~enabled
                   /\ UNCHANGED shared]_vars
    /\ [][\A t \in Threads :
            (pc[t] = "P_drop" /\ pc'[t] # pc[t])
                => /\ pc'[t] = "idle"
                   /\ UNCHANGED <<shared, accepted>>]_vars
    /\ [][\A t \in Threads :
            (pc[t] = "P_print" /\ pc'[t] # pc[t])
                => /\ buffer' = buffer \o Render(UserMsg(t, nsent[t]))
                   /\ count' = count + 1]_vars

\* A Print invoked after SetEnabled(false) is returning without effect.
C13_Witness ==
    /\ ~enabled
    /\ \E t \in Threads : pc[t] = "P_drop"

\* C14: when Rotate has moved the file, the archive holds whole lines and
\* exactly the caller records the old logger accepted, in order; when
\* Rotate returns, the archive is as the move left it, the new logger's file
\* and buffer hold nothing but its init marker, and the new logger is open
\* and enabled.
C14_RotatePreserves ==
    [][\A t \in Threads :
          /\ (pc[t] = "R_rename" /\ pc'[t] = "R_new")
                => LET a == archive'[DateName(Days[today])]
                   IN  /\ WholeLines(a)
                       /\ UserRecords(a) = UserRecords(accepted)
          /\ (pc[t] = "R_new" /\ pc'[t] = "idle")
                => /\ archive' = archive
                   /\ file' \o buffer' = Render(InitMsg)
                   /\ enabled' /\ ~hasClosed' /\ fileOpen']_vars

\* C15: Rotate never overwrites an archive: a file once under old/ stays
\* there with its contents (a Rotate whose target name exists fails instead).
C15_ArchiveKept ==
    [][\A a \in DOMAIN archive :
          a \in DOMAIN archive' /\ archive'[a] = archive[a]]_vars

\* C16: the logger Rotate returns is of the kind of the one it was given
\* (with a flush goroutine exactly when buffered), is open on the file at
\* the same path, and a buffered one has the flush interval the old
\* instance had when it was rotated.
C16_RotateSameKind ==
    [][\A t \in Threads :
          (pc[t] = "R_new" /\ pc'[t] = "idle")
              => /\ kind' = kind
                 /\ livePresent' /\ fileOpen'
                 /\ (kind = BufferedFile)
                       => (flushSec' = flushSec /\ pc'[Loop] = "L_select")
                 /\ (kind = DirectFile) => pc'[Loop] = "L_none"]_vars

\* Rotate has returned a buffered logger whose flush interval is not the
\* default one.
C16_Witness ==
    /\ rotations > 0
    /\ kind = BufferedFile
    /\ flushSec # DefaultFlushIntervalSec
    /\ \A t \in Threads : pc[t] = "idle"

\* C17: after New in a fresh base directory and one Rotate, whatever was
\* printed before and after it and whether or not the logger has been
\* closed since, exactly one archive file exists under old/, named by a
\* date prefix, and a live file exists at the logger's path.
C17_OneArchiveOneLive ==
    (rotations = 1 /\ inRotate = NoOne)
        => /\ Cardinality(DOMAIN archive) = 1
           /\ \A a \in DOMAIN archive :
                 \E i \in 1..Len(Days) : a = DateName(Days[i])
           /\ livePresent

\* New, a Print, Rotate, a Print and Close have run.
C17_Witness ==
    /\ rotations = 1 /\ inRotate = NoOne
    /\ \A t \in Threads : pc[t] = "idle"
    /\ ~fileOpen
    /\ UserRecords(file) # <<>>
    /\ \E a \in DOMAIN archive : UserRecords(archive[a]) # <<>>

\* The last n elements of q, in the order of q.
LastN(q, n) == SubSeq(q, Len(q) - n + 1, Len(q))

Reverse(q) == [i \in 1..Len(q) |-> q[Len(q) + 1 - i]]

\* ReadAll returns to caller t after more records have been stored, since
\* NewLogBuffer or the last SetMaxSize, than the capacity maxSize holds.
ReadsOverfull(t) ==
    /\ lbpc[t] = "ReadAll" /\ lbpc'[t] = "idle"
    /\ maxSize >= 0
    /\ Len(inserted) - sizeMark > maxSize

\* C18 as claimed: after more than maxSize Prints, ReadAll returns exactly
\* the maxSize most recently stored records, oldest first.
C18_ReadAllOldestFirst ==
    [][\A t \in Threads :
          ReadsOverfull(t) => readRet' = LastN(inserted, maxSize)]_vars

\* C18: after more than maxSize Prints, ReadAll returns exactly the maxSize
\* most recently stored records: oldest first from the ring, newest first
\* from the list.
C18_ReadAllMostRecent ==
    [][\A t \in Threads :
          ReadsOverfull(t)
              => readRet' = IF impl = "ring" THEN LastN(inserted, maxSize)
                            ELSE Reverse(LastN(inserted, maxSize))]_vars

\* ReadAll has returned two records after three were stored.
C18_Witness ==
    /\ Len(inserted) - sizeMark > maxSize
    /\ maxSize > 1
    /\ readMark = Len(inserted)
    /\ Len(readRet) = maxSize
    /\ \A t \in Threads : lbpc[t] = "idle"

\* C19 as claimed: whatever capacity NewLogBuffer and SetMaxSize were given,
\* the buffer never holds more than maxSize records.
C19_Capacity == Held <= maxSize

\* C19: with a capacity that is not negative the buffer never holds more
\* than maxSize records; SetMaxSize never makes the capacity negative: given
\* a negative one it panics, with the list emptied and maxSize as it was.
C19_CapacityNonNegative ==
    /\ [](maxSize >= 0 => Held <= maxSize)
    /\ [][maxSize' # maxSize => maxSize' >= 0]_vars
    /\ [][\A t \in Threads :
            (impl = "list" /\ lbpc[t] = "idle" /\ lbpc'[t] = "panicked")
                => (logs' = <<>> /\ maxSize' = maxSize)]_vars

\* The buffer is full after records have been evicted from it.
C19_Witness ==
    /\ maxSize > 0
    /\ Held = maxSize
    /\ Len(inserted) > Held

\* C20: changed is true exactly when Print has stored a record since the
\* last ReadAll (or since NewLogBuffer); HasChanged returns the flag and
\* leaves it and the records alone; ReadAll clears the flag and leaves the
\* records alone.
C20_DirtyFlag ==
    /\ [](changed <=> Len(inserted) > readMark)
    /\ [][\A t \in Threads :
            (lbpc[t] = "HasChanged" /\ lbpc'[t] = "idle")
                => /\ hasRet' = changed
                   /\ UNCHANGED <<changed, logs, ringPos>>]_vars
    /\ [][\A t \in Threads :
            (lbpc[t] = "ReadAll" /\ lbpc'[t] = "idle")
                => /\ ~changed'
                   /\ UNCHANGED <<logs, ringPos>>]_vars

\* A record was stored and read, another was stored, and HasChanged has
\* returned true with the flag still set.
C20_Witness ==
    /\ readMark > 0
    /\ Len(inserted) > readMark
    /\ hasRet /\ changed
    /\ \A t \in Threads : lbpc[t] = "idle"

\* C21: while the LogBuffer is disabled no record is stored, and a Print
\* that finds it disabled returns with the records and the changed flag as
\* they were; a SetEnabled that switches the buffer off or on leaves the
\* records and the changed flag as they were.
C21_DisableDropsWrites ==
    /\ [][~lbEnabled => inserted' = inserted]_vars
    /\ [][dropped' # dropped
            => (~lbEnabled /\ UNCHANGED <<logs, ringPos, changed, lbEnabled>>)]_vars
    /\ [][lbEnabled' # lbEnabled
            => UNCHANGED <<logs, ringPos, changed, inserted>>]_vars

\* A Print has been dropped by a disabled buffer that holds a record and
\* whose changed flag is set.
C21_Witness ==
    /\ ~lbEnabled
    /\ dropped > 0
    /\ Held > 0
    /\ changed

\* C22: SetMaxSize(n) on a buffer holding more than n records leaves exactly
\* the n most recently stored ones, in their order; on a buffer holding at
\* most n it leaves the records alone; either way the capacity becomes n.
C22_SetMaxSizeEvictsOldest ==
    [][\A t \in Threads, n \in -1..MaxCap :
          LBSetMaxSize(t, n)
              => /\ maxSize' = n
                 /\ logs' = IF Len(logs) > n
                              THEN Reverse(LastN(inserted, n))
                              ELSE logs]_vars

\* The state of a LogBuffer that its methods read and write.
LBState == <<logs, ringPos, maxSize, changed, lbEnabled>>

HoldsRLock(t) == lbpc[t] \in {"ReadAll", "HasChanged"}

\* C23: a step that writes LogBuffer state (the records, changed, enabled,
\* maxSize) is taken while no other thread holds the read lock, and a call
\* that holds only the read lock (ReadAll, HasChanged) returns with that
\* state as it was.
C23_MutualExclusion ==
    /\ [][\A t \in Threads :
            (HoldsRLock(t) /\ lbpc'[t] = "idle") => LBState' = LBState]_vars
    /\ [][LBState' # LBState
            => \A u \in Threads : HoldsRLock(u) => lbpc'[u] # lbpc[u]]_vars

LoopGone == pc[Loop] \in {"L_done", "L_crashed"}

\* C24: a print that takes the record count over the threshold starts one
\* signalling goroutine and any other print starts none; the print step
\* itself ends with the lock free and its caller moved on, whatever the loop
\* is doing; and pending signalling goroutines all end, by delivery or by
\* their timeout.
C24_SignalNeverBlocks ==
    /\ [][accepted' # accepted
            => /\ signallers' = IF count' > FlushThreshold
                                  THEN signallers + 1
                                  ELSE signallers
               /\ lock' = NoOne
               /\ \E p \in Procs : pc'[p] # pc[p]]_vars
    /\ (signallers > 0) ~> (signallers = 0)

\* A caller's Print has returned, its signal is pending and the loop has
\* terminated.
C24_Witness ==
    /\ LoopGone
    /\ signallers > 0
    /\ lock = NoOne
    /\ accepted # <<>>
    /\ IsUser(accepted[Len(accepted)])
    /\ \A t \in Threads : pc[t] = "idle"

\* A Close that found hasClosed false and has not yet finished.
PassedCheck(t) ==
    pc[t] \in {"C_set", "C_mark", "C_start", "C_fl_lock", "C_fl_copy",
               "C_fl_sync", "C_fclose", "C_wait", "C_timeout"}

\* C25: of the calls of Close made on one BufferedLog, overlapping or not,
\* at most one passes the hasClosed check, and the close marker is printed
\* at most once.
C25_CloseOnce ==
    /\ Cardinality({t \in Threads : PassedCheck(t)}) <= 1
    /\ Occurrences(accepted, CloseMsg) <= 1

\* C26: while the instance is disabled (SetEnabled(false) has returned and
\* SetEnabled(true) has not been called since) no Print appends a caller's
\* record, a Print that had read the flag before the switch included.
C26_DisabledNothingAppended ==
    [][(~enabled /\ accepted' # accepted)
          => ~IsUser(accepted'[Len(accepted')])]_vars

\* C27: under fair scheduling and timer progress, records waiting in the
\* write buffer are eventually all moved to the backing file: the buffer
\* does not stay non-empty forever.
C27_EventuallyWritten == (buffer # <<>>) ~> (buffer = <<>>)

====
